---- MODULE Spec2Model ----
(***************************************************************************)
(* ProtoX GDK sprite editor: the sprite document (gui/sprite_editor/core), *)
(* the editor's frame / palette / paint handlers (sprite_editor.py,        *)
(* canvas_view.py) and the document I/O (io_manager.py).                   *)
(*                                                                         *)
(* A pixel matrix is a sequence of rows, each a sequence of cells:         *)
(* Python's pixels[y][x] is matrix[y + 1][x + 1].  A colour is <<r,g,b,a>>.*)
(* A JSON object is a function from its keys (strings) to values.          *)
(***************************************************************************)
EXTENDS Integers, Sequences, FiniteSets, TLC

\* doc                 SpriteEditor.doc (a SpriteDoc)
\* active_frame        SpriteEditor.active_frame
\* active_color_index  SpriteEditor.active_color_index
\* fill_mode           SpriteEditor.fill_mode
\* onion_skin          SpriteEditor.onion_skin (a BooleanVar)
\* palette_var         SpriteEditor.palette_var (the palette selector)
\* n_buttons           len(SpriteEditor.palette_buttons)
\* imp                 the image import in flight (io_manager.import_image)
\* op                  the handler that ran last, with its arguments
\* ret                 the value find_closest_color returned last
\* play                the playback state: _is_playing and the callbacks
\*                     that `after` has scheduled and the main loop has
\*                     not run yet
\* flood               the call of _flood_fill under way: its stack, its
\*                     arguments and how often it has tested and written
\*                     each cell
VARIABLES doc, active_frame, active_color_index, fill_mode, onion_skin,
          palette_var, n_buttons, imp, op, ret, play, flood

vars == <<doc, active_frame, active_color_index, fill_mode, onion_skin,
          palette_var, n_buttons, imp, op, ret, play, flood>>

(***************************************************************************)
(* Bounds of the model.  Grid sizes and palette lengths are scaled down:   *)
(* the program's 16x16 default grid is DefaultWidth x DefaultHeight here,  *)
(* and each registry palette keeps only its leading entries.               *)
(***************************************************************************)
MaxWidth == 2
MaxHeight == 2
MaxCells == 2
MaxFrames == 2
Len64 == 2
LenExtra == 1

\* The model's stand-in for the 16 x 16 grid of a new document: the widest
\* grid the bounds admit.
DefaultWidth == MaxWidth
DefaultHeight == MaxCells \div MaxWidth

Min(a, b) == IF a < b THEN a ELSE b
Max(a, b) == IF a < b THEN b ELSE a

\* The grid sizes the model lets a document take.
Dims == {wh \in (1..MaxWidth) \X (1..MaxHeight) : wh[1] * wh[2] <= MaxCells}

(***************************************************************************)
(* gdk/palette.py                                                          *)
(***************************************************************************)
\* The leading entries of default_palette (0-7: neutrals and grays).
default_palette_head ==
    << <<0, 0, 0, 0>>, <<0, 0, 0, 255>>, <<255, 255, 255, 255>>,
       <<230, 230, 230, 255>>, <<128, 128, 128, 255>>, <<64, 64, 64, 255>>,
       <<33, 33, 33, 255>>, <<16, 16, 16, 255>> >>

default_palette == SubSeq(default_palette_head, 1, Len64)

\* The leading entries of extended_palette_256 (0-15: the grayscale ramp).
extended_palette_256 ==
    [i \in 1..(Len64 + LenExtra) |->
        LET g == ((i - 1) * 255) \div 15 IN <<g, g, g, 255>>]

PALETTES ==
    [n \in {"ProtoX 64", "VGA 256"} |->
        IF n = "ProtoX 64" THEN default_palette ELSE extended_palette_256]

\* dict.get(key, default)
DictGet(d, key, default) == IF key \in DOMAIN d THEN d[key] ELSE default

(***************************************************************************)
(* gui/sprite_editor/core.py                                               *)
(***************************************************************************)
DefaultProperties ==
    [collision |-> FALSE, static |-> FALSE, background |-> FALSE,
     player |-> FALSE]

Blank(width, height) == [y \in 1..height |-> [x \in 1..width |-> -1]]

\* SpriteDoc.empty(width, height, palette, name); palette_name, fps, loop
\* and author take the dataclass defaults.
SpriteDocEmpty(width, height, palette, name) ==
    [width |-> width, height |-> height, palette |-> palette,
     palette_name |-> "ProtoX 64", frames |-> <<Blank(width, height)>>,
     name |-> name, fps |-> 10, loop |-> TRUE, author |-> "unknown",
     tags |-> <<>>, properties |-> DefaultProperties]

\* `self.tags or []`, `self.properties or {}`: an empty value becomes the
\* empty list / dict, anything else is kept.
OrEmpty(v) == IF v = <<>> THEN <<>> ELSE v

to_json(d) ==
    [name |-> d.name, width |-> d.width, height |-> d.height,
     fps |-> d.fps, loop |-> d.loop, author |-> d.author,
     tags |-> OrEmpty(d.tags), palette_name |-> d.palette_name,
     palette |-> d.palette, frames |-> d.frames,
     properties |-> OrEmpty(d.properties)]

\* d['width'], d['height'] and d['frames'] raise KeyError when absent.
\* The numbers of the JSON objects of this model are integers and `loop` is
\* a boolean, so int(...) and bool(...) leave them as they are.
FromJsonRaises(d) == ~({"width", "height", "frames"} \subseteq DOMAIN d)

\* from_json taking the file's own palette array when it has one, and the
\* registry's only otherwise.
from_json_embedded(d) ==
    LET palette_name == DictGet(d, "palette_name", "ProtoX 64")
        registry == DictGet(PALETTES, palette_name, <<>>)
        palette == DictGet(d, "palette", registry)
    IN  [name |-> DictGet(d, "name", "unnamed"),
         width |-> d.width, height |-> d.height,
         fps |-> DictGet(d, "fps", 10),
         loop |-> DictGet(d, "loop", TRUE),
         author |-> DictGet(d, "author", "unknown"),
         tags |-> DictGet(d, "tags", <<>>),
         palette |-> palette, palette_name |-> palette_name,
         frames |-> d.frames,
         properties |-> DictGet(d, "properties", DefaultProperties)]

from_json(d) ==
    LET palette_name == DictGet(d, "palette_name", "ProtoX 64")
        embedded == DictGet(d, "palette", <<>>)
        palette == DictGet(PALETTES, palette_name, embedded)
    IN  [name |-> DictGet(d, "name", "unnamed"),
         width |-> d.width, height |-> d.height,
         fps |-> DictGet(d, "fps", 10),
         loop |-> DictGet(d, "loop", TRUE),
         author |-> DictGet(d, "author", "unknown"),
         tags |-> DictGet(d, "tags", <<>>),
         palette |-> palette, palette_name |-> palette_name,
         frames |-> d.frames,
         properties |-> DictGet(d, "properties", DefaultProperties)]

(***************************************************************************)
(* gui/sprite_editor/canvas_view.py                                        *)
(***************************************************************************)
\* The while-loop of _flood_fill pushing the four diagonal neighbours too.
RECURSIVE FillLoop_diagonal(_, _, _, _)
FillLoop_diagonal(matrix, stack, target_color, replacement_color) ==
    IF stack = <<>> THEN matrix
    ELSE LET top == stack[Len(stack)]
             rest == SubSeq(stack, 1, Len(stack) - 1)
             cx == top[1]
             cy == top[2]
             height == Len(matrix)
             width == Len(matrix[1])
         IN  IF cx < 0 \/ cy < 0 \/ cx >= width \/ cy >= height
             THEN FillLoop_diagonal(matrix, rest, target_color,
                                    replacement_color)
             ELSE IF matrix[cy + 1][cx + 1] # target_color
             THEN FillLoop_diagonal(matrix, rest, target_color,
                                    replacement_color)
             ELSE FillLoop_diagonal(
                      [matrix EXCEPT ![cy + 1][cx + 1] = replacement_color],
                      rest \o << <<cx + 1, cy>>, <<cx - 1, cy>>,
                                 <<cx, cy + 1>>, <<cx, cy - 1>>,
                                 <<cx + 1, cy + 1>>, <<cx - 1, cy - 1>>,
                                 <<cx + 1, cy - 1>>, <<cx - 1, cy + 1>> >>,
                      target_color, replacement_color)

\* The while-loop of _flood_fill: `stack` is popped at its end.
RECURSIVE FillLoop(_, _, _, _)
FillLoop(matrix, stack, target_color, replacement_color) ==
    IF stack = <<>> THEN matrix
    ELSE LET top == stack[Len(stack)]
             rest == SubSeq(stack, 1, Len(stack) - 1)
             cx == top[1]
             cy == top[2]
             height == Len(matrix)
             width == Len(matrix[1])
         IN  IF cx < 0 \/ cy < 0 \/ cx >= width \/ cy >= height
             THEN FillLoop(matrix, rest, target_color, replacement_color)
             ELSE IF matrix[cy + 1][cx + 1] # target_color
             THEN FillLoop(matrix, rest, target_color, replacement_color)
             ELSE FillLoop(
                      [matrix EXCEPT ![cy + 1][cx + 1] = replacement_color],
                      rest \o << <<cx + 1, cy>>, <<cx - 1, cy>>,
                                 <<cx, cy + 1>>, <<cx, cy - 1>> >>,
                      target_color, replacement_color)

_flood_fill(matrix, x, y, target_color, replacement_color) ==
    IF target_color = replacement_color THEN matrix
    ELSE FillLoop(matrix, << <<x, y>> >>, target_color, replacement_color)

\* matrix[y][x] is an element of the matrix (no IndexError).
InMatrix(matrix, x, y) ==
    /\ y + 1 \in DOMAIN matrix
    /\ x + 1 \in DOMAIN matrix[y + 1]

CellCount(matrix) ==
    IF matrix = <<>> THEN 0 ELSE Len(matrix) * Len(matrix[1])

\* Indexing palette_array with the matrix's non-negative cells raises
\* IndexError when one of them is no index of the palette.
BadIndices(matrix, palette) ==
    \E y \in DOMAIN matrix : \E x \in DOMAIN matrix[y] :
        matrix[y][x] >= Len(palette)

\* redraw_canvas() followed by update_preview() raises: the composition
\* reshapes the active (and, with onion skin, the previous) frame to
\* height x width and looks its cells up in the palette; the preview looks
\* up doc.frames[active_frame].
RenderRaises(d, k, onion) ==
    LET bad(m) == CellCount(m) # d.width * d.height
                    \/ BadIndices(m, d.palette)
    IN  \/ k + 1 \notin DOMAIN d.frames
        \/ /\ d.palette # <<>>
           /\ \/ bad(d.frames[k + 1])
              \/ onion /\ k > 0 /\ bad(d.frames[k])

\* composed[mask] = colours for the cells >= 0 of one frame; alpha = -1
\* keeps the palette's alpha.
Stamp(composed, matrix, palette, alpha) ==
    [y \in DOMAIN composed |->
        [x \in DOMAIN composed[y] |->
            IF matrix[y][x] >= 0
            THEN IF alpha = -1 THEN palette[matrix[y][x] + 1]
                 ELSE [palette[matrix[y][x] + 1] EXCEPT ![4] = alpha]
            ELSE composed[y][x]]]

\* A composition that stamps the previous frame after the active one.
_compose_frame_with_onion_skin_last(d, k, onion) ==
    LET zeros == [y \in 1..d.height |-> [x \in 1..d.width |-> <<0, 0, 0, 0>>]]
        active == Stamp(zeros, d.frames[k + 1], d.palette, -1)
    IN  IF d.palette = <<>> THEN zeros
        ELSE IF onion /\ k > 0
             THEN Stamp(active, d.frames[k], d.palette, 90)
             ELSE active

\* The RGBA array _compose_frame_with_onion_skin builds for the active
\* frame k of a document whose frames it can reshape and look up.
_compose_frame_with_onion_skin(d, k, onion) ==
    LET zeros == [y \in 1..d.height |-> [x \in 1..d.width |-> <<0, 0, 0, 0>>]]
        onioned == IF onion /\ k > 0
                   THEN Stamp(zeros, d.frames[k], d.palette, 90)
                   ELSE zeros
    IN  IF d.palette = <<>> THEN zeros
        ELSE Stamp(onioned, d.frames[k + 1], d.palette, -1)

(***************************************************************************)
(* gui/sprite_editor/sprite_editor.py: pure parts                          *)
(***************************************************************************)
\* color_distance of _remap_palette, squared (the square root is monotone).
color_distance2(c1, c2) ==
    (c1[1] - c2[1]) * (c1[1] - c2[1]) + (c1[2] - c2[2]) * (c1[2] - c2[2])
        + (c1[3] - c2[3]) * (c1[3] - c2[3])

\* The inner loop with `dist <= best_dist`: the last minimum wins.
RECURSIVE RemapBest_last(_, _, _, _)
RemapBest_last(old_rgb, new_palette, j, best) ==
    IF j > Len(new_palette) THEN best
    ELSE LET dist == color_distance2(old_rgb, new_palette[j])
         IN  IF best[2] = -1 \/ dist <= best[2]
             THEN RemapBest_last(old_rgb, new_palette, j + 1,
                                 <<j - 1, dist>>)
             ELSE RemapBest_last(old_rgb, new_palette, j + 1, best)

\* The inner loop of _remap_palette over new_palette entries j..: the pair
\* <<best_idx, best_dist>>; best_dist = -1 stands for float('inf').
RECURSIVE RemapBest(_, _, _, _)
RemapBest(old_rgb, new_palette, j, best) ==
    IF j > Len(new_palette) THEN best
    ELSE LET dist == color_distance2(old_rgb, new_palette[j])
         IN  IF best[2] = -1 \/ dist < best[2]
             THEN RemapBest(old_rgb, new_palette, j + 1, <<j - 1, dist>>)
             ELSE RemapBest(old_rgb, new_palette, j + 1, best)

\* mapping[i] of _remap_palette, for the 0-based index i of old_palette.
RemapMapping(old_palette, new_palette, i) ==
    RemapBest(old_palette[i + 1], new_palette, 1, <<0, -1>>)[1]

\* The frames after the rewriting loop of _remap_palette.
RemapFrames(frames, old_palette, new_palette) ==
    [k \in DOMAIN frames |->
        [y \in DOMAIN frames[k] |->
            [x \in DOMAIN frames[k][y] |->
                LET val == frames[k][y][x]
                IN  IF val < 0 \/ val >= Len(old_palette) THEN val
                    ELSE RemapMapping(old_palette, new_palette, val)]]]

\* The new pixel matrix resize_grid builds for one frame.
\* resize_grid without the loops that copy the old cells.
ResizedMatrix_blank(pixels, old_w, old_h, w, h) ==
    [y \in 1..h |-> [x \in 1..w |-> -1]]

ResizedMatrix(pixels, old_w, old_h, w, h) ==
    [y \in 1..h |-> [x \in 1..w |->
        IF y <= Min(h, old_h) /\ x <= Min(w, old_w)
        THEN pixels[y][x] ELSE -1]]

\* resize_grid raises IndexError, before it assigns anything, when a frame
\* is smaller than the part it copies.
ResizeRaises(d, w, h) ==
    \E k \in DOMAIN d.frames :
        \E y \in 1..Min(h, d.height) : \E x \in 1..Min(w, d.width) :
            ~InMatrix(d.frames[k], x - 1, y - 1)

(***************************************************************************)
(* gui/sprite_editor/io_manager.py: colour quantization                    *)
(***************************************************************************)
\* dist of find_closest_color without its green term.
WeightedDist_nogreen(c1, c2) ==
    900 * (c1[1] - c2[1]) * (c1[1] - c2[1])
        + 121 * (c1[3] - c2[3]) * (c1[3] - c2[3])

\* The float that dist evaluates to, ranked among the colour differences
\* whose exact dist is the same: (59 * 0.11) ** 2 is 42.1201 and
\* (11 * 0.59) ** 2 is 42.120099999999994, both exactly 6.49 squared; the
\* same two floats add to (11 * 0.3) ** 2.  Every other difference of the
\* colours used here is alone in its class or evaluates to the float of
\* its class.
FloatRank(c1, c2) ==
    LET dr == IF c1[1] < c2[1] THEN c2[1] - c1[1] ELSE c1[1] - c2[1]
        dg == IF c1[2] < c2[2] THEN c2[2] - c1[2] ELSE c1[2] - c2[2]
        db == IF c1[3] < c2[3] THEN c2[3] - c1[3] ELSE c1[3] - c2[3]
    IN  IF <<dr, dg, db>> \in { <<0, 0, 59>>, <<11, 0, 59>> } THEN 1 ELSE 0

\* dist of find_closest_color as an integer of the same order: twice the
\* exact value times 10000 ((dr * 0.3) ** 2 is 0.09 dr^2, (dg * 0.59) ** 2
\* is 0.3481 dg^2, (db * 0.11) ** 2 is 0.0121 db^2), plus the rank of the
\* float among the differences of that exact value.  Two exact values that
\* differ are at least 0.0001 apart, far more than the rounding of the
\* float sum, so their floats are ordered as they are.
WeightedDist(c1, c2) ==
    2 * (900 * (c1[1] - c2[1]) * (c1[1] - c2[1])
           + 3481 * (c1[2] - c2[2]) * (c1[2] - c2[2])
           + 121 * (c1[3] - c2[3]) * (c1[3] - c2[3]))
        + FloatRank(c1, c2)

\* The loop of find_closest_color keeping the one-based position of the
\* best entry instead of its index.
RECURSIVE ClosestLoop_onebased(_, _, _, _)
ClosestLoop_onebased(palette, rgba, i, best) ==
    IF i > Len(palette) THEN best
    ELSE LET dist == WeightedDist(rgba, palette[i])
         IN  IF best[2] = -1 \/ dist < best[2]
             THEN ClosestLoop_onebased(palette, rgba, i + 1, <<i, dist>>)
             ELSE ClosestLoop_onebased(palette, rgba, i + 1, best)

\* The loop of find_closest_color over palette entries i..: the pair
\* <<best_idx, best_dist>>; best_dist = -1 stands for float('inf').
RECURSIVE ClosestLoop(_, _, _, _)
ClosestLoop(palette, rgba, i, best) ==
    IF i > Len(palette) THEN best
    ELSE LET dist == WeightedDist(rgba, palette[i])
         IN  IF best[2] = -1 \/ dist < best[2]
             THEN ClosestLoop(palette, rgba, i + 1, <<i - 1, dist>>)
             ELSE ClosestLoop(palette, rgba, i + 1, best)

\* SpriteIOManager.find_closest_color, on the palette it reads from the
\* editor's document.
find_closest_color(palette, rgba) ==
    IF rgba[4] < 32 THEN -1
    ELSE ClosestLoop(palette, rgba, 1, <<0, -1>>)[1]

\* gui/view_sprite.py, SpriteEditor._find_closest_color: the earlier editor's
\* version has no alpha test and an unweighted distance.
RECURSIVE LegacyLoop(_, _, _, _)
LegacyLoop(palette, rgba, i, best) ==
    IF i > Len(palette) THEN best
    ELSE LET dr == rgba[1] - palette[i][1]
             dg == rgba[2] - palette[i][2]
             db == rgba[3] - palette[i][3]
             dist == dr * dr + dg * dg + db * db
         IN  IF best[2] = -1 \/ dist < best[2]
             THEN LegacyLoop(palette, rgba, i + 1, <<i - 1, dist>>)
             ELSE LegacyLoop(palette, rgba, i + 1, best)

_find_closest_color(palette, rgba) ==
    LegacyLoop(palette, rgba, 1, <<0, -1>>)[1]

Append1(s, e) == s \o <<e>>

\* A deletion that removes the last element whatever the index.
DelAt_last(s, k) == SubSeq(s, 1, Len(s) - 1)

\* del frames[k] for the 0-based index k.
DelAt(s, k) == SubSeq(s, 1, k) \o SubSeq(s, k + 2, Len(s))

\* The record kept in `op`: the handler's name and up to three numbers (its
\* arguments, or what it found when it was called).
OpC(name, a, b, c) == [name |-> name, a |-> a, b |-> b, c |-> c]
Op(name, a, b) == OpC(name, a, b, 0)

NoRet == [fn |-> "none", query |-> <<0, 0, 0, 0>>, idx |-> 0]

\* No _flood_fill under way.
NoFill == [running |-> FALSE]

\* No playback: _is_playing is unset and no `after` callback is pending.
NoPlayback == [is_playing |-> FALSE, timers |-> <<>>]

NoImport == [state |-> "idle", image |-> <<>>, matrix |-> <<>>, pos |-> 0]

(***************************************************************************)
(* The JSON files open_doc may be given.  A file is any JSON object: its   *)
(* frames need not match its width and height, required keys may be        *)
(* missing, and its palette_name may be unknown to the registry.           *)
(***************************************************************************)
Uniform(width, height, v) == [y \in 1..height |-> [x \in 1..width |-> v]]

CustomPalette == << <<255, 0, 0, 255>> >>

FileCellValues == {1, Len64 + LenExtra - 1}

FileFrames(w, h) ==
    {<<>>} \cup {<<Uniform(w, h, v)>> : v \in FileCellValues}
           \cup {<<Uniform(1, 1, v)>> : v \in FileCellValues}

FilePaletteParts ==
    { [palette |-> CustomPalette],
      [palette_name |-> "VGA 256", palette |-> CustomPalette],
      [palette_name |-> "Custom", palette |-> CustomPalette],
      [palette_name |-> "Custom"] }

FileMeta ==
    [name |-> "hero", fps |-> 12, loop |-> FALSE, author |-> "me",
     tags |-> <<"npc">>,
     properties |-> [DefaultProperties EXCEPT !.player = TRUE]]

Without(d, key) == [k \in DOMAIN d \ {key} |-> d[k]]

CompleteFiles ==
    { [width |-> wh[1], height |-> wh[2], frames |-> fs] @@ pp :
        wh \in Dims, fs \in FileFrames(DefaultWidth, DefaultHeight),
        pp \in FilePaletteParts }

JsonFiles ==
    CompleteFiles
      \cup {f @@ FileMeta : f \in {g \in CompleteFiles : g.frames # <<>>
                                      /\ g.width = DefaultWidth}}
      \cup {Without(f, k) : k \in {"width", "height", "frames"},
                            f \in {g \in CompleteFiles :
                                      /\ g.width = 1 /\ g.height = 1
                                      /\ g.frames # <<>>}}

(***************************************************************************)
(* The editor: SpriteEditor.__init__ and its handlers                      *)
(***************************************************************************)
Init ==
    /\ doc = SpriteDocEmpty(DefaultWidth, DefaultHeight,
                            PALETTES["ProtoX 64"], "sprite")
    /\ active_frame = 0
    /\ active_color_index = 1
    /\ fill_mode = FALSE
    /\ onion_skin = FALSE
    /\ palette_var = "ProtoX 64"
    /\ n_buttons = Len(PALETTES["ProtoX 64"])
    /\ imp = NoImport
    /\ op = Op("init", 0, 0)
    /\ ret = NoRet
    /\ play = NoPlayback
    /\ flood = NoFill

\* What the handlers below leave alone, by group.
view == <<fill_mode, onion_skin>>
pal == <<palette_var, n_buttons>>
aux == <<imp, ret, play, flood>>

\* A palette button, or the Transparent button (idx = -1).
select_color(idx) ==
    /\ active_color_index' = idx
    /\ op' = Op("select_color", idx, 0)
    /\ UNCHANGED <<doc, active_frame, view, pal, aux>>

_enable_fill_mode ==
    /\ fill_mode' = ~fill_mode
    /\ op' = Op("fill_mode", 0, 0)
    /\ UNCHANGED <<doc, active_frame, active_color_index, onion_skin, pal,
                   aux>>

\* The frame button [i + 1].
switch(i) ==
    /\ active_frame' = i
    /\ op' = Op("switch", i, 0)
    /\ UNCHANGED <<doc, active_color_index, view, pal, aux>>

\* paint_at that, instead of returning when the cell already has the active
\* colour, erases (fills or paints with -1).
PaintedDoc_toggle(d, k, color, fill, x, y) ==
    IF ~(0 <= x /\ x < d.width /\ 0 <= y /\ y < d.height) THEN d
    ELSE IF k + 1 \notin DOMAIN d.frames THEN d
    ELSE LET matrix == d.frames[k + 1]
         IN  IF ~InMatrix(matrix, x, y) THEN d
             ELSE IF matrix[y + 1][x + 1] = color
             THEN IF fill
                  THEN [d EXCEPT !.frames[k + 1] =
                           _flood_fill(matrix, x, y, color, -1)]
                  ELSE [d EXCEPT !.frames[k + 1][y + 1][x + 1] = -1]
             ELSE IF fill
             THEN [d EXCEPT !.frames[k + 1] =
                      _flood_fill(matrix, x, y, matrix[y + 1][x + 1], color)]
             ELSE [d EXCEPT !.frames[k + 1][y + 1][x + 1] = color]

\* paint_at on frames that share their rows: every frame equal to the
\* active one receives the same assignment.
PaintedDoc_shared(d, k, color, fill, x, y) ==
    IF ~(0 <= x /\ x < d.width /\ 0 <= y /\ y < d.height) THEN d
    ELSE IF k + 1 \notin DOMAIN d.frames THEN d
    ELSE LET matrix == d.frames[k + 1]
         IN  IF ~InMatrix(matrix, x, y) THEN d
             ELSE IF matrix[y + 1][x + 1] = color THEN d
             ELSE LET painted ==
                          IF fill
                          THEN _flood_fill(matrix, x, y,
                                           matrix[y + 1][x + 1], color)
                          ELSE [matrix EXCEPT ![y + 1][x + 1] = color]
                  IN  [d EXCEPT !.frames =
                          [i \in DOMAIN d.frames |->
                              IF d.frames[i] = matrix THEN painted
                              ELSE d.frames[i]]]

\* The document after paint_at on cell (x, y); the unchanged document when
\* the handler returns early or an index lookup raises.
PaintedDoc(d, k, color, fill, x, y) ==
    IF ~(0 <= x /\ x < d.width /\ 0 <= y /\ y < d.height) THEN d
    ELSE IF k + 1 \notin DOMAIN d.frames THEN d
    ELSE LET matrix == d.frames[k + 1]
         IN  IF ~InMatrix(matrix, x, y) THEN d
             ELSE IF matrix[y + 1][x + 1] = color THEN d
             ELSE IF fill
             THEN [d EXCEPT !.frames[k + 1] =
                      _flood_fill(matrix, x, y, matrix[y + 1][x + 1], color)]
             ELSE [d EXCEPT !.frames[k + 1][y + 1][x + 1] = color]

\* The value of matrix[y][x] in the active frame; -2 when there is no such
\* cell.
CellAt(d, k, x, y) ==
    IF k + 1 \in DOMAIN d.frames /\ InMatrix(d.frames[k + 1], x, y)
    THEN d.frames[k + 1][y + 1][x + 1] ELSE -2

\* op records the click and the value the cell had before it.
paint_at(x, y) ==
    /\ doc' = PaintedDoc(doc, active_frame, active_color_index, fill_mode,
                         x, y)
    /\ op' = OpC("paint_at", x, y, CellAt(doc, active_frame, x, y))
    /\ UNCHANGED <<active_frame, active_color_index, view, pal, aux>>

eyedrop_at(x, y) ==
    /\ active_color_index' =
          IF /\ 0 <= x /\ x < doc.width /\ 0 <= y /\ y < doc.height
             /\ active_frame + 1 \in DOMAIN doc.frames
             /\ InMatrix(doc.frames[active_frame + 1], x, y)
          THEN doc.frames[active_frame + 1][y + 1][x + 1]
          ELSE active_color_index
    /\ op' = Op("eyedrop_at", x, y)
    /\ UNCHANGED <<doc, active_frame, view, pal, aux>>

\* The document _remap_palette leaves.
_remap_palette(d, old_palette, new_palette) ==
    [d EXCEPT !.frames = RemapFrames(d.frames, old_palette, new_palette),
              !.palette = new_palette]

\* The <<frame, row, column>> positions of the cells of the frames.
MatrixIndices(frames) ==
    UNION {UNION {{<<k, y, x>> : x \in DOMAIN frames[k][y]} :
                     y \in DOMAIN frames[k]} : k \in DOMAIN frames}

\* The palette option menu: it sets palette_var, then calls the command; op
\* records `changed`, the number of cells the remap gave another index.
\* When the redraw at the end of _remap_palette raises, the colour buttons
\* are not rebuilt.
_on_palette_change(choice) ==
    LET new_palette == PALETTES[choice]
        remapped == _remap_palette(doc, doc.palette, new_palette)
    IN  /\ palette_var' = choice
        /\ doc' = remapped
        /\ n_buttons' = IF RenderRaises(remapped, active_frame, onion_skin)
                        THEN n_buttons ELSE Len(new_palette)
        /\ op' = Op("palette_change",
                    Cardinality({c \in MatrixIndices(doc.frames) :
                        remapped.frames[c[1]][c[2]][c[3]] #
                            doc.frames[c[1]][c[2]][c[3]]}), 0)
        /\ UNCHANGED <<active_frame, active_color_index, view, aux>>

_add_frame ==
    /\ Len(doc.frames) < MaxFrames
    /\ doc' = [doc EXCEPT !.frames =
                  Append1(doc.frames, Blank(doc.width, doc.height))]
    /\ active_frame' = Len(doc.frames)
    /\ op' = Op("add_frame", 0, 0)
    /\ UNCHANGED <<active_color_index, view, pal, aux>>

\* doc.frames[active_frame] raises IndexError when there is no such frame.
_dup_frame ==
    /\ Len(doc.frames) < MaxFrames
    /\ IF active_frame + 1 \in DOMAIN doc.frames
       THEN /\ doc' = [doc EXCEPT !.frames =
                          Append1(doc.frames, doc.frames[active_frame + 1])]
            /\ active_frame' = Len(doc.frames)
       ELSE UNCHANGED <<doc, active_frame>>
    /\ op' = Op("dup_frame", 0, 0)
    /\ UNCHANGED <<active_color_index, view, pal, aux>>

\* _delete_frame without its `len(self.doc.frames) <= 1` guard.
_delete_frame_unguarded ==
    /\ IF active_frame + 1 \notin DOMAIN doc.frames
       THEN UNCHANGED <<doc, active_frame>>
       ELSE /\ doc' = [doc EXCEPT !.frames = DelAt(doc.frames, active_frame)]
            /\ active_frame' = Max(0, active_frame - 1)
    /\ op' = Op("delete_frame", Len(doc.frames), active_frame)
    /\ UNCHANGED <<active_color_index, view, pal, aux>>

\* op records the number of frames and the active frame at the call.
_delete_frame ==
    /\ IF Len(doc.frames) <= 1 \/ active_frame + 1 \notin DOMAIN doc.frames
       THEN UNCHANGED <<doc, active_frame>>
       ELSE /\ doc' = [doc EXCEPT !.frames = DelAt(doc.frames, active_frame)]
            /\ active_frame' = Max(0, active_frame - 1)
    /\ op' = Op("delete_frame", Len(doc.frames), active_frame)
    /\ UNCHANGED <<active_color_index, view, pal, aux>>

_clear_frame ==
    /\ doc' = IF active_frame + 1 \in DOMAIN doc.frames
              THEN [doc EXCEPT !.frames[active_frame + 1] =
                       Blank(doc.width, doc.height)]
              ELSE doc
    /\ op' = Op("clear_frame", 0, 0)
    /\ UNCHANGED <<active_frame, active_color_index, view, pal, aux>>

\* The document resize_grid leaves.
ResizedDoc(d, w, h) ==
    IF ResizeRaises(d, w, h) THEN d
    ELSE [d EXCEPT !.width = w, !.height = h,
                   !.frames = [k \in DOMAIN d.frames |->
                       ResizedMatrix(d.frames[k], d.width, d.height, w, h)]]

resize_grid(w, h) ==
    /\ doc' = ResizedDoc(doc, w, h)
    /\ op' = OpC("resize_grid", w, h, doc.width)
    /\ UNCHANGED <<active_frame, active_color_index, view, pal, aux>>

\* new_doc without `self.editor.active_frame = 0`.
new_doc_keeps_active_frame ==
    /\ doc' = SpriteDocEmpty(DefaultWidth, DefaultHeight,
                             PALETTES["ProtoX 64"], "sprite")
    /\ op' = Op("new_doc", Len(doc.frames), active_frame)
    /\ UNCHANGED <<active_frame, active_color_index, view, pal, aux>>

\* palette_var is read first and written back last: it keeps its value.
\* op records the number of frames and the active frame at the call.
new_doc ==
    /\ doc' = SpriteDocEmpty(DefaultWidth, DefaultHeight,
                             PALETTES["ProtoX 64"], "sprite")
    /\ active_frame' = 0
    /\ op' = Op("new_doc", Len(doc.frames), active_frame)
    /\ UNCHANGED <<active_color_index, view, pal, aux>>

\* open_doc on a file holding the JSON object `data`.  The palette restore
\* writes the open document's palette and palette_var before from_json
\* runs; when from_json raises, the handler ends there.
\* The record of an open_doc call: a = 1 when from_json raised, and the
\* data json.load returned.
OpenOp(raised, data) == Op("open_doc", raised, 0) @@ [data |-> data]

open_doc(data) ==
    LET palette_name == DictGet(data, "palette_name", "ProtoX 64")
        palette == DictGet(PALETTES, palette_name, PALETTES["ProtoX 64"])
    IN  /\ palette_var' = palette_name
        /\ IF FromJsonRaises(data)
           THEN /\ doc' = [doc EXCEPT !.palette = palette]
                /\ op' = OpenOp(1, data)
                /\ UNCHANGED <<active_frame, n_buttons>>
           ELSE /\ doc' = from_json(data)
                /\ active_frame' = 0
                /\ n_buttons' = Len(from_json(data).palette)
                /\ op' = OpenOp(0, data)
        /\ UNCHANGED <<active_color_index, view, aux>>

(***************************************************************************)
(* io_manager.import_image: the worker thread quantizes the image pixel by *)
(* pixel against the palette the document has at that moment, then hands   *)
(* apply_result to the main loop.  One import is in flight at a time.      *)
(***************************************************************************)
ImageColors == { <<0, 0, 0, 0>>, <<0, 0, 0, 255>>, <<255, 255, 255, 255>> }

\* The decoded images: height rows of width RGBA pixels.
Images ==
    UNION { [1..wh[2] -> [1..wh[1] -> ImageColors]] : wh \in Dims }

import_image(image) ==
    /\ imp.state = "idle"
    /\ imp' = [state |-> "running", image |-> image,
               matrix |-> Blank(Len(image[1]), Len(image)), pos |-> 0]
    /\ op' = Op("import_image", Len(image[1]), Len(image))
    /\ UNCHANGED <<doc, active_frame, active_color_index, view, pal, ret, play,
                   flood>>

\* One pass of the worker's inner loop, on pixel number imp.pos in row-major
\* order; after the last pixel the worker queues apply_result.
import_worker ==
    /\ imp.state = "running"
    /\ LET width == Len(imp.image[1])
           height == Len(imp.image)
           y == imp.pos \div width
           x == imp.pos % width
           rgba == imp.image[y + 1][x + 1]
           idx == IF rgba[4] < 32 THEN -1
                  ELSE find_closest_color(doc.palette, rgba)
       IN  imp' = [imp EXCEPT
                      !.matrix[y + 1][x + 1] = idx,
                      !.pos = imp.pos + 1,
                      !.state = IF imp.pos + 1 = width * height
                                THEN "done" ELSE "running"]
    /\ op' = Op("import_worker", imp.pos, 0)
    /\ UNCHANGED <<doc, active_frame, active_color_index, view, pal, ret, play,
                   flood>>

\* The document apply_result leaves: resize_grid, whose refresh_all may
\* raise after it has resized, then the assignment to the active frame.
ImportedDoc(d, k, onion, matrix) ==
    LET width == Len(matrix[1])
        height == Len(matrix)
        resized == ResizedDoc(d, width, height)
    IN  IF ResizeRaises(d, width, height) THEN d
        ELSE IF RenderRaises(resized, k, onion) THEN resized
        ELSE [resized EXCEPT !.frames[k + 1] = matrix]

apply_result ==
    /\ imp.state = "done"
    /\ doc' = ImportedDoc(doc, active_frame, onion_skin, imp.matrix)
    /\ imp' = NoImport
    /\ op' = Op("apply_result", 0, 0)
    /\ UNCHANGED <<active_frame, active_color_index, view, pal, ret, play,
                   flood>>

\* Mouse events land on any cell of the largest grid, inside the document
\* or not.
ClickCells == (0..(MaxWidth - 1)) \X (0..(MaxHeight - 1))

SelectColor == \E idx \in -1..(n_buttons - 1) : select_color(idx)
Switch == \E i \in 0..(Len(doc.frames) - 1) : switch(i)
PaintAt == \E c \in ClickCells : paint_at(c[1], c[2])
EyedropAt == \E c \in ClickCells : eyedrop_at(c[1], c[2])
OnPaletteChange == \E choice \in DOMAIN PALETTES : _on_palette_change(choice)
ResizeGrid == \E wh \in Dims : resize_grid(wh[1], wh[2])
OpenDoc == \E data \in JsonFiles : open_doc(data)

ImportImage == \E image \in Images : import_image(image)

\* The editing handlers: colours, painting, palette switch, frames, resize
\* and New.
Next ==
    \/ SelectColor
    \/ _enable_fill_mode
    \/ Switch
    \/ PaintAt
    \/ EyedropAt
    \/ OnPaletteChange
    \/ _add_frame
    \/ _dup_frame
    \/ _delete_frame
    \/ _clear_frame
    \/ ResizeGrid
    \/ new_doc

Spec == Init /\ [][Next]_vars

\* Open with the frame, resize, palette and New handlers; no painting.
NextOpen ==
    \/ OpenDoc
    \/ OnPaletteChange
    \/ Switch
    \/ _add_frame
    \/ _dup_frame
    \/ _delete_frame
    \/ _clear_frame
    \/ ResizeGrid
    \/ new_doc

SpecOpen == Init /\ [][NextOpen]_vars

\* save_doc (after save_as_doc has set the path): the file holds
\* doc.to_json() with palette_name replaced by the palette menu's value.
\* json.dumps, the regular expression that puts each list of numbers on
\* one line, and json.load give back the same object.  op records it.
save_doc ==
    /\ op' = Op("save_doc", 0, 0)
                @@ [data |-> [to_json(doc) EXCEPT !.palette_name =
                                                      palette_var]]
    /\ UNCHANGED <<doc, active_frame, active_color_index, view, pal, aux>>

\* New, the palette menu, Open and Save.
NextSave ==
    \/ new_doc
    \/ OnPaletteChange
    \/ OpenDoc
    \/ save_doc

SpecSave == Init /\ [][NextSave]_vars

\* Image import with the handlers that may run while the worker does.
NextImport ==
    \/ ImportImage
    \/ import_worker
    \/ apply_result
    \/ OnPaletteChange
    \/ ResizeGrid
    \/ _add_frame
    \/ _delete_frame

SpecImport == Init /\ [][NextImport]_vars

\* resize_grid called with any integers, non-positive ones included:
\* range(w) and range(h) are empty for them.
ResizeArgs ==
    {wh \in (-1..MaxWidth) \X (-1..MaxHeight) :
        wh[1] <= 0 \/ wh[2] <= 0 \/ wh \in Dims}

ResizeGridAny == \E wh \in ResizeArgs : resize_grid(wh[1], wh[2])

NextResize ==
    \/ ResizeGridAny
    \/ SelectColor
    \/ PaintAt
    \/ Switch
    \/ _add_frame

SpecResize == Init /\ [][NextResize]_vars

(***************************************************************************)
(* gui/sprite_editor/metadata.py: the metadata panel.  A form is what the  *)
(* panel's widgets hold: the stripped name and author, the text of the fps *)
(* entry, the loop box, the pieces of the tags entry between commas       *)
(* (stripped), and the four property boxes.                                *)
(***************************************************************************)
FpsTexts == {"12", "0", "-3", "abc", ""}

\* int(text): the number, or ValueError for text that is not a numeral.
IntRaises(text) == text \notin {"12", "0", "-3"}

IntOf(text) ==
    CASE text = "12" -> 12
      [] text = "0" -> 0
      [] text = "-3" -> -3

\* [t.strip() for t in tags_raw.split(',') if t.strip()]
TagsOf(pieces) == SelectSeq(pieces, LAMBDA t : t # "")

Forms ==
    [name : {"sprite", "hero"}, author : {"unknown", "me"},
     fps : FpsTexts, loop : BOOLEAN,
     tags : {<<"">>, <<"npc">>, <<"", "npc">>},
     properties : {DefaultProperties,
                   [DefaultProperties EXCEPT !.player = TRUE]}]

MetaOp(name, form) == Op(name, 0, 0) @@ [form |-> form]

\* MetadataPanel.apply_metadata (the panel is built and autoapply is not
\* suspended): a ValueError of int() is caught and only fps is skipped.
apply_metadata(form) ==
    /\ doc' = [doc EXCEPT !.name = form.name, !.author = form.author,
                          !.fps = IF IntRaises(form.fps) THEN doc.fps
                                  ELSE IntOf(form.fps),
                          !.loop = form.loop,
                          !.tags = TagsOf(form.tags),
                          !.properties = form.properties]
    /\ op' = MetaOp("apply_metadata", form)
    /\ UNCHANGED <<active_frame, active_color_index, view, pal, aux>>

\* view_sprite.py, SpriteEditor._apply_metadata: int() raises out of the
\* handler after name and author are assigned.
_apply_metadata(form) ==
    /\ doc' = IF IntRaises(form.fps)
              THEN [doc EXCEPT !.name = form.name, !.author = form.author]
              ELSE [doc EXCEPT !.name = form.name, !.author = form.author,
                               !.fps = IntOf(form.fps), !.loop = form.loop,
                               !.tags = TagsOf(form.tags),
                               !.properties = form.properties]
    /\ op' = MetaOp("_apply_metadata", form)
    /\ UNCHANGED <<active_frame, active_color_index, view, pal, aux>>

ApplyMetadata == \E form \in Forms : apply_metadata(form)

LegacyApplyMetadata == \E form \in Forms : _apply_metadata(form)

NextMeta == ApplyMetadata \/ LegacyApplyMetadata

SpecMeta == Init /\ [][NextMeta]_vars

(***************************************************************************)
(* sprite_editor.py: playback.  `after(ms, f, i)` puts a callback in       *)
(* play.timers; the main loop runs a pending callback later.  Callbacks    *)
(* scheduled by the same function have the same delay while the slider is  *)
(* left alone and run in the order they were scheduled; a step callback    *)
(* (90 ms) and a _loop_step callback (frame_time_var ms) run in either     *)
(* order.  A callback records `shown`, the frame index its scheduler set.  *)
(***************************************************************************)
PlayFrames == 3

MaxTimers == 2

OnceTimer(start, i, shown) ==
    [fn |-> "step", start |-> start, i |-> i, shown |-> shown]

LoopTimer(i, shown) ==
    [fn |-> "_loop_step", start |-> 0, i |-> i, shown |-> shown]

\* The body of step(i) in _play_once, with `rest` the callbacks pending
\* besides the one that runs.  An exception of the redraw ends the chain.
step(start, i, rest) ==
    LET n == Len(doc.frames)
        shown == (start + i) % n
    IN  IF RenderRaises(doc, shown, onion_skin)
        THEN /\ active_frame' = shown
             /\ play' = [play EXCEPT !.timers = rest]
        ELSE IF i + 1 < n
        THEN /\ active_frame' = shown
             /\ play' = [play EXCEPT !.timers =
                            Append(rest, OnceTimer(start, i + 1, shown))]
        ELSE /\ active_frame' = start
             /\ play' = [play EXCEPT !.timers = rest]

\* _loop_step without the test of _is_playing.
_loop_step_unguarded(i, rest) ==
    LET n == Len(doc.frames)
        shown == i % n
    IN  /\ active_frame' = shown
        /\ play' = [play EXCEPT !.timers =
                      IF RenderRaises(doc, shown, onion_skin) THEN rest
                      ELSE Append(rest, LoopTimer(shown + 1, shown))]

_loop_step(i, rest) ==
    LET n == Len(doc.frames)
        shown == i % n
    IN  IF ~play.is_playing
        THEN /\ active_frame' = active_frame
             /\ play' = [play EXCEPT !.timers = rest]
        ELSE /\ active_frame' = shown
             /\ play' = [play EXCEPT !.timers =
                           IF RenderRaises(doc, shown, onion_skin) THEN rest
                           ELSE Append(rest, LoopTimer(shown + 1, shown))]

\* The Play once button.  The bound MaxTimers caps the callbacks pending.
_play_once ==
    /\ Len(play.timers) < MaxTimers
    /\ IF Len(doc.frames) <= 1
       THEN UNCHANGED <<active_frame, play>>
       ELSE step(active_frame, 0, play.timers)
    /\ op' = OpC("_play_once", active_frame, Len(doc.frames), 0)
    /\ UNCHANGED <<doc, active_color_index, view, pal, imp, ret, flood>>

\* The Play loop button.
_play_loop ==
    /\ Len(play.timers) < MaxTimers
    /\ IF play.is_playing
       THEN UNCHANGED <<active_frame, play>>
       ELSE LET n == Len(doc.frames)
            IN  /\ active_frame' = 0 % n
                /\ play' = [is_playing |-> TRUE,
                            timers |->
                                IF RenderRaises(doc, 0 % n, onion_skin)
                                THEN play.timers
                                ELSE Append(play.timers,
                                            LoopTimer((0 % n) + 1, 0 % n))]
    /\ op' = OpC("_play_loop", active_frame, Len(doc.frames), 0)
    /\ UNCHANGED <<doc, active_color_index, view, pal, imp, ret, flood>>

\* The Stop button.
_stop_playback ==
    /\ play' = [play EXCEPT !.is_playing = FALSE]
    /\ op' = Op("_stop_playback", 0, 0)
    /\ UNCHANGED <<doc, active_frame, active_color_index, view, pal, imp,
                   ret, flood>>

\* The callbacks the main loop may run next: the oldest of each function.
Due ==
    {j \in DOMAIN play.timers :
        \A k \in 1..(j - 1) : play.timers[k].fn # play.timers[j].fn}

\* The main loop runs a pending step callback of _play_once.
OnceTick ==
    \E j \in Due :
        LET t == play.timers[j]
        IN  /\ t.fn = "step"
            /\ step(t.start, t.i, DelAt(play.timers, j - 1))
            /\ op' = OpC("step", t.start, t.i, t.shown)
            /\ UNCHANGED <<doc, active_color_index, view, pal, imp, ret, flood>>

\* The main loop runs a pending _loop_step callback.
LoopTick ==
    \E j \in Due :
        LET t == play.timers[j]
        IN  /\ t.fn = "_loop_step"
            /\ _loop_step(t.i, DelAt(play.timers, j - 1))
            /\ op' = OpC("_loop_step", t.i, t.shown, 0)
            /\ UNCHANGED <<doc, active_color_index, view, pal, imp, ret, flood>>

\* The editor with 1..PlayFrames blank frames, any of them active, as
\* _add_frame and the frame buttons leave it.
InitPlay ==
    /\ \E n \in 1..PlayFrames :
          /\ doc = [SpriteDocEmpty(DefaultWidth, DefaultHeight,
                                   PALETTES["ProtoX 64"], "sprite")
                       EXCEPT !.frames =
                           [k \in 1..n |-> Blank(DefaultWidth,
                                                 DefaultHeight)]]
          /\ active_frame \in 0..(n - 1)
    /\ active_color_index = 1
    /\ fill_mode = FALSE
    /\ onion_skin = FALSE
    /\ palette_var = "ProtoX 64"
    /\ n_buttons = Len(PALETTES["ProtoX 64"])
    /\ imp = NoImport
    /\ op = Op("init", 0, 0)
    /\ ret = NoRet
    /\ play = NoPlayback
    /\ flood = NoFill

NextPlay ==
    \/ _play_once
    \/ _play_loop
    \/ _stop_playback
    \/ OnceTick
    \/ LoopTick
    \/ Switch
    \/ _delete_frame

SpecPlay == InitPlay /\ [][NextPlay]_vars

(***************************************************************************)
(* The frame handlers on documents whose frames differ: up to StripFrames  *)
(* frames of MaxWidth x 1 cells, painted, filled, cleared, duplicated and  *)
(* deleted.                                                                *)
(***************************************************************************)
StripFrames == 3

InitFrames ==
    /\ \E n \in 1..StripFrames :
          /\ \E frames \in [1..n -> [1..1 -> [1..MaxWidth -> {-1, 0}]]] :
                doc = [SpriteDocEmpty(MaxWidth, 1, PALETTES["ProtoX 64"],
                                      "sprite")
                          EXCEPT !.frames = frames]
          /\ active_frame \in 0..(n - 1)
    /\ active_color_index \in {-1, 1}
    /\ fill_mode = FALSE
    /\ onion_skin = FALSE
    /\ palette_var = "ProtoX 64"
    /\ n_buttons = Len(PALETTES["ProtoX 64"])
    /\ imp = NoImport
    /\ op = Op("init", 0, 0)
    /\ ret = NoRet
    /\ play = NoPlayback
    /\ flood = NoFill

NextFrames ==
    \/ _enable_fill_mode
    \/ Switch
    \/ PaintAt
    \/ _dup_frame
    \/ _delete_frame
    \/ _clear_frame

SpecFrames == InitFrames /\ [][NextFrames]_vars

(***************************************************************************)
(* Rendering: documents of one or two frames of MaxWidth x 1 cells that    *)
(* index the ProtoX 64 palette, the onion skin switch and the zoom slider; *)
(* `ret` holds the image of the redraw they ask for.                       *)
(***************************************************************************)
InitRender ==
    /\ \E n \in 1..MaxFrames :
          /\ \E frames \in [1..n -> [1..1 -> [1..MaxWidth ->
                               -1..(Len(PALETTES["ProtoX 64"]) - 1)]]] :
                doc = [SpriteDocEmpty(MaxWidth, 1, PALETTES["ProtoX 64"],
                                      "sprite")
                          EXCEPT !.frames = frames]
          /\ active_frame \in 0..(n - 1)
    /\ active_color_index = 1
    /\ fill_mode = FALSE
    /\ onion_skin = FALSE
    /\ palette_var = "ProtoX 64"
    /\ n_buttons = Len(PALETTES["ProtoX 64"])
    /\ imp = NoImport
    /\ op = Op("init", 0, 0)
    /\ ret = NoRet
    /\ play = NoPlayback
    /\ flood = NoFill

\* What redraw_canvas leaves on the canvas: the composed image, or no image
\* when the composition raises.
Redrawn(d, k, onion) ==
    IF RenderRaises(d, k, onion)
    THEN [fn |-> "redraw_canvas", query |-> <<0, 0, 0, 0>>, idx |-> -1,
          image |-> <<>>]
    ELSE [fn |-> "redraw_canvas", query |-> <<0, 0, 0, 0>>, idx |-> 0,
          image |-> _compose_frame_with_onion_skin(d, k, onion)]

\* The onion skin switch sets its BooleanVar and calls redraw_canvas.
toggle_onion_skin ==
    /\ onion_skin' = ~onion_skin
    /\ ret' = Redrawn(doc, active_frame, ~onion_skin)
    /\ op' = Op("onion_skin", 0, 0)
    /\ UNCHANGED <<doc, active_frame, active_color_index, fill_mode, pal,
                   imp, play, flood>>

\* The zoom slider calls redraw_canvas.
zoom_changed ==
    /\ ret' = Redrawn(doc, active_frame, onion_skin)
    /\ op' = Op("zoom_changed", 0, 0)
    /\ UNCHANGED <<doc, active_frame, active_color_index, view, pal, imp,
                   play, flood>>

NextRender ==
    \/ Switch
    \/ PaintAt
    \/ toggle_onion_skin
    \/ zoom_changed

SpecRender == InitRender /\ [][NextRender]_vars

\* Play once on its own: the button is pressed while nothing is pending,
\* and nothing but the callbacks runs until the run is over.  The main loop
\* runs a callback that is due.
Idle == play.timers = <<>>

NextOnce ==
    \/ Idle /\ _play_once
    \/ OnceTick
    \/ Idle /\ Switch
    \/ Idle /\ SelectColor
    \/ Idle /\ PaintAt

SpecOnce == InitPlay /\ [][NextOnce]_vars /\ WF_vars(OnceTick)

(***************************************************************************)
(* Flood fill on larger grids: the editor in fill mode on a one-frame      *)
(* document of FillWidth x FillHeight cells, any content over the indices  *)
(* -1 and 0, any selected colour; every click is a fill.                   *)
(***************************************************************************)
FillWidth == 3
FillHeight == 2

FillCells == (0..(FillWidth - 1)) \X (0..(FillHeight - 1))

InitFill ==
    /\ \E m \in [1..FillHeight -> [1..FillWidth -> {-1, 0}]] :
          doc = [SpriteDocEmpty(FillWidth, FillHeight,
                                PALETTES["ProtoX 64"], "sprite")
                    EXCEPT !.frames = <<m>>]
    /\ active_frame = 0
    /\ active_color_index \in {-1, 0, 1}
    /\ fill_mode = TRUE
    /\ onion_skin = FALSE
    /\ palette_var = "ProtoX 64"
    /\ n_buttons = Len(PALETTES["ProtoX 64"])
    /\ imp = NoImport
    /\ op = Op("fill_mode", 0, 0)
    /\ ret = NoRet
    /\ play = NoPlayback
    /\ flood = NoFill

NextFill == \E c \in FillCells : paint_at(c[1], c[2])

SpecFill == InitFill /\ [][NextFill]_vars

(***************************************************************************)
(* _flood_fill one loop iteration at a time, on the same grids: `flood`    *)
(* holds the stack and the arguments of the call and counts, for every     *)
(* cell, the iterations that compared it with target_color (tested) and    *)
(* those that assigned it (written).  The matrix is the active frame's own *)
(* list, so every assignment is an assignment to the document.             *)
(***************************************************************************)
\* One iteration of `while stack:` that compares but does not assign.
FillBody_nowrite(matrix, stack, target_color, replacement_color) ==
    LET top == stack[Len(stack)]
        rest == SubSeq(stack, 1, Len(stack) - 1)
        cx == top[1]
        cy == top[2]
        inside == ~(cx < 0 \/ cy < 0 \/ cx >= Len(matrix[1])
                       \/ cy >= Len(matrix))
        hit == inside /\ matrix[cy + 1][cx + 1] = target_color
    IN  [cell |-> top, tested |-> inside, written |-> hit,
         matrix |-> matrix,
         stack |-> IF hit
                   THEN rest \o << <<cx + 1, cy>>, <<cx - 1, cy>>,
                                   <<cx, cy + 1>>, <<cx, cy - 1>> >>
                   ELSE rest]

\* One iteration of `while stack:`: the cell popped, whether it was
\* compared with target_color and assigned, and the matrix and stack left.
FillBody(matrix, stack, target_color, replacement_color) ==
    LET top == stack[Len(stack)]
        rest == SubSeq(stack, 1, Len(stack) - 1)
        cx == top[1]
        cy == top[2]
        inside == ~(cx < 0 \/ cy < 0 \/ cx >= Len(matrix[1])
                       \/ cy >= Len(matrix))
        hit == inside /\ matrix[cy + 1][cx + 1] = target_color
    IN  [cell |-> top, tested |-> inside, written |-> hit,
         matrix |-> IF hit
                    THEN [matrix EXCEPT ![cy + 1][cx + 1] =
                             replacement_color]
                    ELSE matrix,
         stack |-> IF hit
                   THEN rest \o << <<cx + 1, cy>>, <<cx - 1, cy>>,
                                   <<cx, cy + 1>>, <<cx, cy - 1>> >>
                   ELSE rest]

\* paint_at in fill mode up to the loop of _flood_fill: the two tests of
\* target against the colour, then stack = [(x, y)].
begin_fill(x, y) ==
    /\ ~flood.running
    /\ fill_mode
    /\ LET target == CellAt(doc, active_frame, x, y)
       IN  flood' = IF target = -2 \/ target = active_color_index
                    THEN NoFill
                    ELSE [running |-> TRUE, start |-> <<x, y>>,
                          stack |-> << <<x, y>> >>,
                          target_color |-> target,
                          replacement_color |-> active_color_index,
                          tested |-> [c \in FillCells |-> 0],
                          written |-> [c \in FillCells |-> 0]]
    /\ op' = OpC("begin_fill", x, y, CellAt(doc, active_frame, x, y))
    /\ UNCHANGED <<doc, active_frame, active_color_index, view, pal, imp,
                   ret, play>>

\* One iteration of the loop; the call returns when the stack is empty.
fill_step ==
    /\ flood.running
    /\ LET it == FillBody(doc.frames[active_frame + 1], flood.stack,
                          flood.target_color, flood.replacement_color)
       IN  /\ doc' = [doc EXCEPT !.frames[active_frame + 1] = it.matrix]
           /\ flood' = [flood EXCEPT
                 !.running = it.stack # <<>>,
                 !.stack = it.stack,
                 !.tested = IF it.tested
                            THEN [@ EXCEPT ![it.cell] = @ + 1] ELSE @,
                 !.written = IF it.written
                             THEN [@ EXCEPT ![it.cell] = @ + 1] ELSE @]
           /\ op' = Op("_flood_fill", it.cell[1], it.cell[2])
    /\ UNCHANGED <<active_frame, active_color_index, view, pal, imp, ret,
                   play>>

NextFillSteps ==
    \/ \E c \in FillCells : begin_fill(c[1], c[2])
    \/ fill_step

SpecFillSteps == InitFill /\ [][NextFillSteps]_vars /\ WF_vars(fill_step)

(***************************************************************************)
(* Nearest colour: the editor after opening a file that embeds its own     *)
(* palette (any list of at most MaxPaletteLen colours) under a name the    *)
(* registry does not know; find_closest_color is called on any query.      *)
(***************************************************************************)
MaxPaletteLen == 2

Channel == {0, 255}

\* Two colours at the same weighted distance from black.
TieColors == { <<0, 0, 59, 255>>, <<0, 11, 0, 255>> }

PaletteColors ==
    {<<r, g, b, 255>> : r \in Channel, g \in Channel, b \in Channel}
        \cup { <<0, 0, 0, 0>> } \cup TieColors

QueryColors ==
    {<<rgb[1], rgb[2], rgb[3], a>> :
        rgb \in Channel \X Channel \X Channel, a \in {0, 31, 32, 255}}

NearestPalettes == UNION { [1..n -> PaletteColors] : n \in 0..MaxPaletteLen }

InitNearest ==
    /\ \E p \in NearestPalettes :
          /\ doc = from_json(
                [width |-> 1, height |-> 1, frames |-> <<Blank(1, 1)>>,
                 palette_name |-> "Custom", palette |-> p])
          /\ n_buttons = Len(p)
    /\ active_frame = 0
    /\ active_color_index = 1
    /\ fill_mode = FALSE
    /\ onion_skin = FALSE
    /\ palette_var = "Custom"
    /\ imp = NoImport
    /\ op = Op("open_doc", 0, 0)
    /\ ret = NoRet
    /\ play = NoPlayback
    /\ flood = NoFill

\* A call of SpriteIOManager.find_closest_color(rgba).
FindClosest ==
    /\ \E rgba \in QueryColors :
          ret' = [fn |-> "find_closest_color", query |-> rgba,
                  idx |-> find_closest_color(doc.palette, rgba)]
    /\ op' = Op("find_closest_color", 0, 0)
    /\ UNCHANGED <<doc, active_frame, active_color_index, view, pal, imp, play,
                   flood>>

\* A call of view_sprite's SpriteEditor._find_closest_color(rgba).
LegacyFindClosest ==
    /\ \E rgba \in QueryColors :
          ret' = [fn |-> "_find_closest_color", query |-> rgba,
                  idx |-> _find_closest_color(doc.palette, rgba)]
    /\ op' = Op("_find_closest_color", 0, 0)
    /\ UNCHANGED <<doc, active_frame, active_color_index, view, pal, imp, play,
                   flood>>

NextNearest == FindClosest \/ LegacyFindClosest

SpecNearest == InitNearest /\ [][NextNearest]_vars

(***************************************************************************)
(* Properties                                                              *)
(***************************************************************************)
\* Every cell of the matrix is -1 or an index of the palette.
ValidIndices(matrix, palette) ==
    \A y \in DOMAIN matrix : \A x \in DOMAIN matrix[y] :
        matrix[y][x] = -1
            \/ (0 <= matrix[y][x] /\ matrix[y][x] < Len(palette))

\* The matrix has `height` rows of `width` cells.
HasShape(matrix, width, height) ==
    /\ Len(matrix) = height
    /\ \A y \in DOMAIN matrix : Len(matrix[y]) = width

\* C1: under the editing handlers (add, duplicate, delete, clear, resize,
\* New, paint, palette switch) the document always has at least one frame,
\* and a Delete called while exactly one frame remains changes neither the
\* frame list nor the active frame index.
C1_AtLeastOneFrame ==
    /\ [](Len(doc.frames) >= 1)
    /\ [][(op'.name = "delete_frame" /\ Len(doc.frames) = 1)
            => (doc'.frames = doc.frames /\ active_frame' = active_frame)]_vars

\* C1 witness: Delete has just run on a document of one frame, which is
\* still there.
C1_Witness ==
    /\ op.name = "delete_frame"
    /\ op.a = 1
    /\ Len(doc.frames) = 1

\* C2: every cell of every frame is -1 or an index of the document's
\* current palette.
C2_CellsIndexPalette ==
    \A k \in DOMAIN doc.frames : ValidIndices(doc.frames[k], doc.palette)

\* C3: every frame's grid has doc.height rows of doc.width cells.
C3_FramesMatchSize ==
    \A k \in DOMAIN doc.frames :
        HasShape(doc.frames[k], doc.width, doc.height)

\* C4: a document with at least one frame, valid palette indices and all
\* four properties present is equal, field by field, to
\* from_json(to_json(doc)).
C4_RoundTrip ==
    ( /\ Len(doc.frames) >= 1
      /\ \A k \in DOMAIN doc.frames : ValidIndices(doc.frames[k], doc.palette)
      /\ DOMAIN doc.properties = DOMAIN DefaultProperties )
    => /\ ~FromJsonRaises(to_json(doc))
       /\ from_json(to_json(doc)) = doc

\* C8: SpriteDoc.empty(width, height, ...) has exactly one frame, of height
\* rows by width cells that are all -1, for every size; and right after New
\* the document is named 'sprite', has exactly one frame and the active
\* frame index is 0, whatever the editor held before.
C8_NewDocument ==
    /\ \A w \in 1..MaxWidth : \A h \in 1..MaxHeight :
          LET e == SpriteDocEmpty(w, h, PALETTES["ProtoX 64"], "unnamed")
          IN  /\ Len(e.frames) = 1
              /\ e.frames[1] = Uniform(w, h, -1)
              /\ e.width = w /\ e.height = h
    /\ op.name = "new_doc"
          => /\ doc.name = "sprite"
             /\ Len(doc.frames) = 1
             /\ active_frame = 0

\* C8 witness: New has just run on an editor that held several frames with
\* a later one active.
C8_Witness ==
    /\ op.name = "new_doc"
    /\ op.a >= 2
    /\ op.b >= 1
    /\ Len(doc.frames) = 1

\* The cells <<x, y>> of a matrix, and 4-adjacency of two cells.
MatrixCells(matrix) ==
    {c \in (0..(Len(matrix[1]) - 1)) \X (0..(Len(matrix) - 1)) : TRUE}

Adjacent4(c, d) ==
    \/ c[1] = d[1] /\ (c[2] = d[2] + 1 \/ d[2] = c[2] + 1)
    \/ c[2] = d[2] /\ (c[1] = d[1] + 1 \/ d[1] = c[1] + 1)

\* The least set of cells that holds S and every cell of value t that is
\* 4-adjacent to one of its members.
RECURSIVE Grow(_, _, _)
Grow(matrix, t, S) ==
    LET next == S \cup {c \in MatrixCells(matrix) :
                           /\ matrix[c[2] + 1][c[1] + 1] = t
                           /\ \E d \in S : Adjacent4(c, d)}
    IN  IF next = S THEN S ELSE Grow(matrix, t, next)

\* The 4-connected region of equal value that contains (x, y).
Region(matrix, x, y) == Grow(matrix, matrix[y + 1][x + 1], {<<x, y>>})

\* The matrix with r on that region and its other cells as they are.
RegionFilled(matrix, x, y, r) ==
    LET region == Region(matrix, x, y)
    IN  [yy \in DOMAIN matrix |-> [xx \in DOMAIN matrix[yy] |->
            IF <<xx - 1, yy - 1>> \in region THEN r ELSE matrix[yy][xx]]]

\* C5: a fill at (x, y) with colour r, on a cell whose value t differs from
\* r, changes to r exactly the cells of the 4-connected region of value t
\* that contains (x, y) and leaves every other cell as it is.
C5_FillsRegion ==
    [][(op'.name = "paint_at" /\ fill_mode /\ op'.c # -2
            /\ op'.c # active_color_index)
        => doc' = [doc EXCEPT !.frames[active_frame + 1] =
                      RegionFilled(doc.frames[active_frame + 1],
                                   op'.a, op'.b, active_color_index)]]_vars

\* C5 witness: the fill of the 0-region at (0, 0) with colour 1 has stopped
\* at the -1 cells and has not reached the 0 cell that touches the region
\* only diagonally.
C5_Witness ==
    /\ op = OpC("paint_at", 0, 0, 0)
    /\ fill_mode
    /\ active_color_index = 1
    /\ Len(doc.frames) = 1
    /\ doc.frames[1] = << <<1, 1, -1>>, <<1, -1, 0>> >>

\* C6: filling is idempotent: once a fill at a cell with a colour has run,
\* running the same fill again leaves the grid as the first run left it.
C6_FillIdempotent ==
    (op.name = "paint_at" /\ fill_mode)
        => PaintedDoc(doc, active_frame, active_color_index, fill_mode,
                      op.a, op.b) = doc

\* C6 witness: a fill has just recoloured a region of at least two cells.
C6_Witness ==
    /\ op.name = "paint_at"
    /\ fill_mode
    /\ op.c \notin {-2, active_color_index}
    /\ active_color_index = 1
    /\ \E c \in MatrixCells(doc.frames[1]) :
          /\ c # <<op.a, op.b>>
          /\ doc.frames[1][c[2] + 1][c[1] + 1] = 1

\* C7: a fill on a cell that already has the fill colour leaves every cell
\* of the document unchanged.
C7_FillSameColour ==
    [][(op'.name = "paint_at" /\ fill_mode
            /\ op'.c = active_color_index)
        => doc' = doc]_vars

\* C7 witness: a fill has just been asked for on a cell that had the active
\* colour.
C7_Witness ==
    /\ op.name = "paint_at"
    /\ fill_mode
    /\ op.c = active_color_index
    /\ \E c \in MatrixCells(doc.frames[1]) :
          doc.frames[1][c[2] + 1][c[1] + 1] # active_color_index

\* The RGB part of a colour, and palettes without two entries of equal RGB.
RGB(c) == <<c[1], c[2], c[3]>>

DistinctRGB(palette) ==
    \A i, j \in DOMAIN palette : RGB(palette[i]) = RGB(palette[j]) => i = j

\* A nearest-colour function has returned (either editor's).
Returned == ret.fn \in {"find_closest_color", "_find_closest_color"}

\* C9, as the specification states it: the nearest-colour function returns
\* an index idx with 0 <= idx < len(palette) for every palette and every
\* RGBA query colour.
C9_Original ==
    Returned => (0 <= ret.idx /\ ret.idx < Len(doc.palette))

\* C9: on a palette that is not empty the nearest-colour function returns
\* an index idx with 0 <= idx < len(palette), except that
\* find_closest_color returns -1 for a query whose alpha is below 32
\* (whatever the palette); on an empty palette a query that is searched
\* returns 0.
C9_InRangeOrSentinel ==
    Returned =>
        IF ret.fn = "find_closest_color" /\ ret.query[4] < 32
        THEN ret.idx = -1
        ELSE IF doc.palette = <<>>
        THEN ret.idx = 0
        ELSE 0 <= ret.idx /\ ret.idx < Len(doc.palette)

\* C9 witness: find_closest_color has searched a palette of two colours for
\* an opaque query and has returned the last index.
C9_Witness ==
    /\ ret.fn = "find_closest_color"
    /\ ret.query[4] >= 32
    /\ Len(doc.palette) >= 2
    /\ ret.idx = Len(doc.palette) - 1

\* C10, as the specification states it: on a palette with no two entries
\* of equal RGB that has an entry whose RGB equals the query colour,
\* find_closest_color returns the index of that entry.
C10_Original ==
    (ret.fn = "find_closest_color" /\ DistinctRGB(doc.palette))
        => \A i \in DOMAIN doc.palette :
              RGB(doc.palette[i]) = RGB(ret.query) => ret.idx = i - 1

\* C10: on a palette with no two entries of equal RGB that has an entry
\* whose RGB equals the query colour, find_closest_color returns the index
\* of that entry when the query's alpha is at least 32, and -1 when it is
\* below 32.
C10_ExactMatch ==
    (ret.fn = "find_closest_color" /\ DistinctRGB(doc.palette))
        => \A i \in DOMAIN doc.palette :
              RGB(doc.palette[i]) = RGB(ret.query)
                  => ret.idx = (IF ret.query[4] >= 32 THEN i - 1 ELSE -1)

\* C10 witness: the query's RGB is the second of two distinct palette
\* entries, which differ in green only, and its index has been returned.
C10_Witness ==
    /\ ret.fn = "find_closest_color"
    /\ ret.query[4] >= 32
    /\ Len(doc.palette) = 2
    /\ DistinctRGB(doc.palette)
    /\ RGB(doc.palette[2]) = RGB(ret.query)
    /\ doc.palette[1][1] = doc.palette[2][1]
    /\ doc.palette[1][3] = doc.palette[2][3]
    /\ ret.idx = 1

\* C11: resize_grid(w, h) on a document of size w0 x h0 gives every frame h
\* rows of w cells, in which cell (x, y) is the old cell (x, y) when
\* x < min(w, w0) and y < min(h, h0) and is -1 otherwise; the frames stay
\* as many and in their order.
C11_ResizeKeepsTopLeft ==
    [][op'.name = "resize_grid" =>
        /\ doc'.width = op'.a
        /\ doc'.height = op'.b
        /\ Len(doc'.frames) = Len(doc.frames)
        /\ \A k \in DOMAIN doc.frames :
              /\ Len(doc'.frames[k]) = op'.b
              /\ \A y \in 1..op'.b :
                    /\ Len(doc'.frames[k][y]) = op'.a
                    /\ \A x \in 1..op'.a :
                          doc'.frames[k][y][x] =
                              IF x <= doc.width /\ y <= doc.height
                              THEN doc.frames[k][y][x] ELSE -1]_vars

\* C11 witness: a document of two frames has grown from width 1 to width 2;
\* the first frame kept its painted cell and got -1 in the new one.
C11_Witness ==
    /\ op.name = "resize_grid"
    /\ op.a = 2
    /\ op.c = 1
    /\ Len(doc.frames) = 2
    /\ doc.frames[1][1] = <<0, -1>>

\* open_doc has just loaded a file / has just failed to load one.
Opened == op.name = "open_doc" /\ op.a = 0

OpenFailed == op.name = "open_doc" /\ op.a = 1

\* C12: a loaded file whose palette_name (ProtoX 64 when the file has none)
\* is a name of the registry gives a document with the registry's palette,
\* whatever palette array the file holds; only when the name is not in the
\* registry does the document have the file's palette array (the empty
\* palette when the file has none).
C12_RegistryPaletteFirst ==
    Opened =>
        LET palette_name == IF "palette_name" \in DOMAIN op.data
                            THEN op.data.palette_name ELSE "ProtoX 64"
        IN  /\ doc.palette_name = palette_name
            /\ palette_name \in DOMAIN PALETTES
                   => doc.palette = PALETTES[palette_name]
            /\ palette_name \notin DOMAIN PALETTES
                   => doc.palette = (IF "palette" \in DOMAIN op.data
                                     THEN op.data.palette ELSE <<>>)

\* C12 witness: a file named for the registry's VGA 256 that holds another
\* palette array has been loaded, and the document has the registry's.
C12_Witness ==
    /\ Opened
    /\ "palette_name" \in DOMAIN op.data
    /\ op.data.palette_name = "VGA 256"
    /\ op.data.palette = CustomPalette
    /\ doc.palette = extended_palette_256
    /\ doc.palette # CustomPalette

\* C13: loading fails, and gives no document, whenever one of width,
\* height, frames or palette is absent from the file; every optional field
\* absent from a file that loads takes its default (name 'unnamed', fps 10,
\* loop true, author 'unknown', no tags, properties all false).
C13_RequiredFields ==
    op.name = "open_doc" =>
        /\ (\E k \in {"width", "height", "frames", "palette"} :
               k \notin DOMAIN op.data) => OpenFailed
        /\ Opened =>
              /\ "name" \notin DOMAIN op.data => doc.name = "unnamed"
              /\ "fps" \notin DOMAIN op.data => doc.fps = 10
              /\ "loop" \notin DOMAIN op.data => doc.loop = TRUE
              /\ "author" \notin DOMAIN op.data => doc.author = "unknown"
              /\ "tags" \notin DOMAIN op.data => doc.tags = <<>>
              /\ "properties" \notin DOMAIN op.data
                     => doc.properties = DefaultProperties

\* C14: when open_doc fails, the document open before it is untouched: its
\* width, height, palette, frames and metadata, and the editor's active
\* frame, are what they were before the call.
C14_FailedOpenKeepsDocument ==
    [][(op'.name = "open_doc" /\ op'.a = 1)
        => (doc' = doc /\ active_frame' = active_frame)]_vars

\* C15: resize_grid with a width or a height that is not positive is
\* rejected before it changes anything: the document's width, height and
\* frames are afterwards what they were.
C15_NonPositiveResizeRejected ==
    [][(op'.name = "resize_grid" /\ (op'.a <= 0 \/ op'.b <= 0))
        => doc' = doc]_vars

\* The metadata panel has just been applied, and the fields it writes.
MetaApplied == op.name \in {"apply_metadata", "_apply_metadata"}

MetaOf(d) == <<d.name, d.author, d.fps, d.loop, d.tags, d.properties>>

ValidFps(text) == ~IntRaises(text) /\ IntOf(text) > 0

\* C16: applying the metadata is all or nothing: when the fps text is not a
\* positive integer none of name, author, fps, loop, tags and properties
\* changes; otherwise all of them are set from the form.
C16_MetadataAllOrNothing ==
    [][(op'.name \in {"apply_metadata", "_apply_metadata"}) =>
        IF ValidFps(op'.form.fps)
        THEN MetaOf(doc') = <<op'.form.name, op'.form.author,
                              IntOf(op'.form.fps), op'.form.loop,
                              TagsOf(op'.form.tags), op'.form.properties>>
        ELSE MetaOf(doc') = MetaOf(doc)]_vars

\* Play once / loop playback is running.
PlayingOnce == \E j \in DOMAIN play.timers : play.timers[j].fn = "step"

PlayingLoop == play.is_playing

\* C17: Play once with N > 1 frames and active frame s, nothing else
\* interleaved, makes the active frame (s + i) mod N for i = 0..N-1 in that
\* order, one per timer tick (i = 0 at the request), and then eventually
\* stops with the active frame s again and no callback pending.
C17_PlayOnceRun ==
    /\ [][(op'.name = "_play_once" /\ op'.b > 1)
            => active_frame' = op'.a % op'.b]_vars
    /\ [][op'.name = "step"
            => active_frame' = (op'.a + op'.b) % Len(doc.frames)]_vars
    /\ \A s \in 0..(PlayFrames - 1) :
          (PlayingOnce /\ play.timers[1].start = s)
              ~> (Idle /\ active_frame = s)

\* The parts of C17 that hold: every tick but the last shows the next
\* frame, the last one puts the active frame back to s, and the run ends.
C17_RunEndsRestored ==
    /\ [][(op'.name = "step" /\ op'.b + 1 < Len(doc.frames))
            => active_frame' = (op'.a + op'.b) % Len(doc.frames)]_vars
    /\ [][(op'.name = "step" /\ op'.b + 1 >= Len(doc.frames))
            => (active_frame' = op'.a /\ Idle')]_vars
    /\ \A s \in 0..(PlayFrames - 1) :
          (PlayingOnce /\ play.timers[1].start = s)
              ~> (Idle /\ active_frame = s)

\* C18: at most one of play-once and loop playback is running; Play once
\* and Play loop pressed while either is running change nothing and start
\* no further chain of callbacks.
C18_OnePlaybackAtATime ==
    /\ [](~(PlayingOnce /\ PlayingLoop))
    /\ [][(op'.name \in {"_play_once", "_play_loop"}
              /\ (PlayingOnce \/ PlayingLoop))
            => (play' = play /\ active_frame' = active_frame)]_vars

\* C19: while the loop plays, a _loop_step callback sets the active frame
\* to the index after the one shown by the step that scheduled it, modulo
\* the number of frames there are now, and schedules the next callback, so
\* that one is always pending; after Stop the loop is off at once and a
\* callback that runs then changes neither the active frame nor schedules
\* another.
C19_LoopPlayback ==
    /\ [](PlayingLoop =>
            \E j \in DOMAIN play.timers : play.timers[j].fn = "_loop_step")
    /\ [][(op'.name = "_loop_step" /\ PlayingLoop)
            => /\ active_frame' = (op'.b + 1) % Len(doc.frames)
               /\ play'.timers[Len(play'.timers)] =
                      LoopTimer(active_frame' + 1, active_frame')]_vars
    /\ [][op'.name = "_stop_playback" => ~PlayingLoop']_vars
    /\ [][(op'.name = "_loop_step" /\ ~PlayingLoop)
            => /\ active_frame' = active_frame
               /\ Len(play'.timers) = Len(play.timers) - 1
               /\ ~PlayingLoop']_vars

\* C19 witness: the loop runs over three frames and a callback has just
\* wrapped from the last frame to the first.
C19_Witness ==
    /\ op.name = "_loop_step"
    /\ op.b = 2
    /\ Len(doc.frames) = 3
    /\ PlayingLoop
    /\ active_frame = 0

\* C20: while the worker of import_image quantizes and the main thread
\* runs palette, size and frame commands in any interleaving, only the
\* apply step changes the document, and after it every frame has the
\* image's size and every cell of the imported (active) frame is -1 or an
\* index into the palette the document then has.
C20_ImportAppliesValidFrame ==
    /\ [][op'.name \in {"import_image", "import_worker"}
            => doc' = doc]_vars
    /\ [][op'.name = "apply_result"
            => /\ \A k \in DOMAIN doc'.frames :
                     HasShape(doc'.frames[k], Len(imp.matrix[1]),
                              Len(imp.matrix))
               /\ active_frame' + 1 \in DOMAIN doc'.frames
               /\ ValidIndices(doc'.frames[active_frame' + 1],
                               doc'.palette)]_vars

\* C21, as the specification states it: _flood_fill terminates, and during
\* one fill each cell is popped and compared with the target at most once.
C21_Original ==
    /\ [](op.name = "_flood_fill" => \A c \in FillCells : flood.tested[c] <= 1)
    /\ flood.running ~> ~flood.running

\* C21: _flood_fill terminates, and during one fill each cell is assigned
\* at most once; a cell is popped and compared with the target once for
\* each assigned 4-neighbour that pushed it, and once more when it is the
\* start cell, so up to five times.
C21_FillTerminates ==
    /\ [](op.name = "_flood_fill" =>
            \A c \in FillCells :
                /\ flood.written[c] <= 1
                /\ flood.tested[c] <= 5
                /\ flood.tested[c] <=
                       (IF c = flood.start THEN 1 ELSE 0)
                         + Cardinality({d \in FillCells :
                               Adjacent4(c, d) /\ flood.written[d] = 1}))
    /\ flood.running ~> ~flood.running

\* C21 witness: a fill has returned after it compared one cell with the
\* target three times and assigned it once.
C21_Witness ==
    /\ op.name = "_flood_fill"
    /\ ~flood.running
    /\ \E c \in FillCells : flood.tested[c] = 3 /\ flood.written[c] = 1

\* C22: _delete_frame with more than one frame removes exactly the frame at
\* the active index, keeps the other frames' contents and order, and sets
\* the active frame to max(0, previous active frame - 1).
C22_DeleteFrame ==
    [][(op'.name = "delete_frame" /\ Len(doc.frames) > 1) =>
          /\ Len(doc'.frames) = Len(doc.frames) - 1
          /\ \A i \in 1..Len(doc'.frames) :
                doc'.frames[i] =
                    doc.frames[IF i <= active_frame THEN i ELSE i + 1]
          /\ active_frame' =
                 (IF active_frame = 0 THEN 0 ELSE active_frame - 1)
          /\ [doc' EXCEPT !.frames = doc.frames] = doc]_vars

\* C22 witness: the middle one of three frames was deleted, and the two
\* frames left differ.
C22_Witness ==
    /\ op.name = "delete_frame"
    /\ op.a = 3
    /\ op.b = 1
    /\ Len(doc.frames) = 2
    /\ doc.frames[1] # doc.frames[2]
    /\ active_frame = 0

SquaredRGB(p, q) ==
    (p[1] - q[1]) * (p[1] - q[1]) + (p[2] - q[2]) * (p[2] - q[2])
        + (p[3] - q[3]) * (p[3] - q[3])

\* j is the lowest 0-based index of new_palette whose entry minimises the
\* distance to the entry p.
LowestNearest(p, new_palette, j) ==
    /\ j + 1 \in DOMAIN new_palette
    /\ \A m \in DOMAIN new_palette :
          /\ SquaredRGB(p, new_palette[j + 1]) <= SquaredRGB(p, new_palette[m])
          /\ m < j + 1 =>
                SquaredRGB(p, new_palette[j + 1]) <
                    SquaredRGB(p, new_palette[m])

\* C24: a palette switch rewrites every cell that holds an index of the old
\* palette, in every frame, to the lowest index of the new palette whose
\* RGB is nearest (unweighted squared distance, alpha ignored) to the old
\* entry, leaves every -1 cell as it is, and leaves the document with the
\* new palette.
C24_RemapToLowestNearest ==
    [][op'.name = "palette_change" =>
          /\ doc'.palette = PALETTES[palette_var']
          /\ MatrixIndices(doc'.frames) = MatrixIndices(doc.frames)
          /\ \A c \in MatrixIndices(doc.frames) :
                LET val == doc.frames[c[1]][c[2]][c[3]]
                    new_val == doc'.frames[c[1]][c[2]][c[3]]
                IN  /\ val = -1 => new_val = -1
                    /\ (0 <= val /\ val < Len(doc.palette)) =>
                          LowestNearest(doc.palette[val + 1], doc'.palette,
                                        new_val)]_vars

\* C24 witness: a switch to ProtoX 64, whose entries 0 and 1 have the same
\* RGB, has given some cell another index while a -1 cell stayed.
C24_Witness ==
    /\ op.name = "palette_change"
    /\ op.a > 0
    /\ palette_var = "ProtoX 64"
    /\ \E c \in MatrixIndices(doc.frames) :
          doc.frames[c[1]][c[2]][c[3]] = -1
    /\ \E c \in MatrixIndices(doc.frames) :
          doc.frames[c[1]][c[2]][c[3]] = 0

\* The weighted squared distance with the integer weights 30, 59 and 11.
IntegerWeighted(q, p) ==
    (30 * (q[1] - p[1])) * (30 * (q[1] - p[1]))
        + (59 * (q[2] - p[2])) * (59 * (q[2] - p[2]))
        + (11 * (q[3] - p[3])) * (11 * (q[3] - p[3]))

\* C25: for an opaque query find_closest_color returns the lowest index
\* among the palette entries that minimise the weighted squared distance,
\* and for a query whose alpha is below 32 it returns -1.
C25_LowestWeightedNearest ==
    (ret.fn = "find_closest_color" /\ doc.palette # <<>>) =>
        /\ ret.query[4] < 32 => ret.idx = -1
        /\ ret.query[4] = 255 =>
              /\ ret.idx + 1 \in DOMAIN doc.palette
              /\ \A m \in DOMAIN doc.palette :
                    /\ IntegerWeighted(ret.query, doc.palette[ret.idx + 1])
                          <= IntegerWeighted(ret.query, doc.palette[m])
                    /\ m < ret.idx + 1 =>
                          IntegerWeighted(ret.query,
                                          doc.palette[ret.idx + 1])
                              < IntegerWeighted(ret.query, doc.palette[m])

\* C26: the image of a redraw of the active frame k has, at every
\* coordinate, the palette RGBA of the active frame's cell when the cell is
\* not -1; otherwise, with onion skin on and k > 0 and the cell of frame
\* k - 1 not -1, that cell's palette RGB with alpha 90; otherwise
\* (0, 0, 0, 0).  The redraw changes no frame and no field of the document.
C26_Rendering ==
    [][op'.name \in {"zoom_changed", "onion_skin"} =>
          /\ UNCHANGED <<doc, active_frame, active_color_index, fill_mode,
                         pal>>
          /\ DOMAIN ret'.image = 1..doc.height
          /\ \A y \in 1..doc.height :
                /\ DOMAIN ret'.image[y] = 1..doc.width
                /\ \A x \in 1..doc.width :
                      LET cell == doc.frames[active_frame + 1][y][x]
                      IN  ret'.image[y][x] =
                            IF cell # -1 THEN doc.palette[cell + 1]
                            ELSE IF /\ onion_skin'
                                    /\ active_frame > 0
                                    /\ doc.frames[active_frame][y][x] # -1
                            THEN LET prev ==
                                       doc.palette[
                                         doc.frames[active_frame][y][x] + 1]
                                 IN  <<prev[1], prev[2], prev[3], 90>>
                            ELSE <<0, 0, 0, 0>>]_vars

\* C26 witness: a redraw of the second frame with onion skin on shows the
\* opaque black of the active frame at (0, 0), where the previous frame
\* has a colour too, and the previous frame's black at alpha 90 at (1, 0).
C26_Witness ==
    /\ op.name = "zoom_changed"
    /\ onion_skin
    /\ active_frame = 1
    /\ doc.frames[1][1][1] = 1
    /\ ret.image[1][1] = <<0, 0, 0, 255>>
    /\ ret.image[1][2] = <<0, 0, 0, 90>>

\* C27: in every reachable state the active frame is a frame of the
\* document, also when frames are deleted or selected between the ticks of
\* a playback.
C27_ActiveFrameInRange ==
    0 <= active_frame /\ active_frame < Len(doc.frames)

\* C28: whatever the order of Play loop, Stop and timer ticks, at most one
\* _loop_step callback is pending.
C28_OneLoopCallbackPending ==
    Cardinality({j \in DOMAIN play.timers :
                    play.timers[j].fn = "_loop_step"}) <= 1

\* C29: selecting the palette that is already active, right after a palette
\* switch, leaves the frame grids as the switch left them.
C29_RemapIdempotent ==
    [][(/\ op.name = "palette_change"
        /\ op'.name = "palette_change"
        /\ palette_var' = palette_var)
          => doc'.frames = doc.frames]_vars

\* C30: after any sequence of New, palette switches, Open and Save, the
\* palette name a Save writes, when it is a name of the registry, names the
\* palette the document has, and opening the saved file gives a document
\* with the same palette and the same frames.
C30_SavedPaletteName ==
    op.name = "save_doc" =>
        /\ op.data.palette_name \in DOMAIN PALETTES =>
              PALETTES[op.data.palette_name] = doc.palette
        /\ ~FromJsonRaises(op.data)
        /\ from_json(op.data).palette = doc.palette
        /\ from_json(op.data).frames = doc.frames

====
